---- MODULE Spec2Model ----
(***************************************************************************)
(* A model of the request execution core of hq-go-http: Client.Do and its  *)
(* retry loop, the HTTP/1.x -> HTTP/2 fallback, the default retry policy   *)
(* (isErrorRecoverable) and the idle-connection counter                    *)
(* (closeIdleConnections).                                                 *)
(*                                                                         *)
(* The retry loop itself, retrier.RetryWithData, lives in the separate     *)
(* retrier module and is not part of the sources; it is modelled from the  *)
(* specification's section 4.4 and from the interface Client.Do uses it    *)
(* through (src/client.go:78-119): the engine is handed the context, the   *)
(* work unit and four options, and sees of each attempt only the           *)
(* (result, error) pair the work unit returns.                             *)
(***************************************************************************)
EXTENDS Integers, Sequences, FiniteSets, TLC

\* ---------------------------------------------------------------- bounds

\* Largest RetryMax a client is configured with.
MaxRetryMax == 2

\* Number of sequential Client.Do calls one client makes under Spec.
MaxCalls == 1

\* Number of sequential Client.Do calls one client makes under SpecIdle.
MaxIdleCalls == 101

\* Largest number of goroutines calling Client.Do on one client at a time.
MaxGoroutines == 2

\* Number of Client.Do calls the goroutines of SpecConc make in all.
MaxCompleted == 103

\* Longest request body, in bytes.
MaxLen == 3

\* Number of Read and Close calls made on one reusable reader.
MaxReads == 4

\* Goroutines reading one reusable reader at a time.
MaxReaders == 2

\* Header calls, AddHeader or SetHeader, made on one RequestBuilder.
MaxOps == 2

\* RequestBuilders a client hands out, one after the other.
MaxBuilders == 2

\* ------------------------------------------------------ program constants

\* closeIdleConnections: the request counter's threshold.
IdleThreshold == 100

\* ------------------------------------------------------------------ errors
(***************************************************************************)
(* A Go error value, by what the code inspects of it:                      *)
(*   url   - errors.As(err, &URLError) finds a *url.Error in its chain     *)
(*   text  - the class of err.Error(): which of the matched texts it holds *)
(*   wraps - the typed error errors.As / errors.Is finds in its chain      *)
(***************************************************************************)
NilErr == [url |-> FALSE, text |-> "nil", wraps |-> "none"]

MkErr(u, t, w) == [url |-> u, text |-> t, wraps |-> w]

\* ctx.Err() of a context: nil while it is live, else context.Canceled or
\* context.DeadlineExceeded.
CtxStates == {"live", "canceled", "deadline"}

CtxErr(c) ==
    IF c = "live" THEN NilErr
    ELSE IF c = "canceled" THEN MkErr(FALSE, "ctx", "canceled")
    ELSE MkErr(FALSE, "ctx", "deadline")

\* The texts the code matches on, "tmp" standing for any other text.
ErrTexts == {"tmp", "redirects", "scheme", "h1broken"}

ErrWraps == {"none", "unknownCA", "canceled"}

\* Every non-nil error the retry policy can be called with.
PolicyErrors == [url : BOOLEAN, text : ErrTexts, wraps : ErrWraps]

\* redirectsErrorRegex.MatchString(err.Error()): `stopped after \d+ redirects\z`
redirectsErrorRegex(e) == e.text = "redirects"

\* schemeErrorRegex.MatchString(err.Error()): `unsupported protocol scheme`
schemeErrorRegex(e) == e.text = "scheme"

\* errors.As(err, &URLError)
AsURLError(e) == e.url

\* errors.As(err, &UnknownAuthorityError)
AsUnknownAuthorityError(e) == e.wraps = "unknownCA"

\* ------------------------------------------------------------ retry policy

isErrorHTTP1Broken_WrongText(e) == e # NilErr /\ e.text = "tmp"

\* isErrorHTTP1Broken: err != nil and its text contains the signature
\* `net/http: HTTP/1.x transport connection broken: malformed HTTP version "HTTP/2"`.
isErrorHTTP1Broken(e) == e # NilErr /\ e.text = "h1broken"

Decision(r, e) == [retry |-> r, errr |-> e]

isErrorRecoverable_NoCtxCheck(ctxErr, e) ==
    IF e # NilErr /\ AsURLError(e)
          /\ (redirectsErrorRegex(e) \/ schemeErrorRegex(e) \/ AsUnknownAuthorityError(e))
    THEN Decision(FALSE, e)
    ELSE IF e # NilErr THEN Decision(TRUE, NilErr) ELSE Decision(FALSE, NilErr)

isErrorRecoverable_NoURLCheck(ctxErr, e) ==
    IF ctxErr # NilErr THEN Decision(FALSE, ctxErr)
    ELSE IF e # NilErr
          /\ (redirectsErrorRegex(e) \/ schemeErrorRegex(e) \/ AsUnknownAuthorityError(e))
    THEN Decision(FALSE, e)
    ELSE IF e # NilErr THEN Decision(TRUE, NilErr) ELSE Decision(FALSE, NilErr)

isErrorRecoverable_DropsOverride(ctxErr, e) ==
    IF ctxErr # NilErr THEN Decision(FALSE, ctxErr)
    ELSE IF e # NilErr /\ AsURLError(e)
          /\ (redirectsErrorRegex(e) \/ schemeErrorRegex(e) \/ AsUnknownAuthorityError(e))
    THEN Decision(FALSE, NilErr)
    ELSE IF e # NilErr THEN Decision(TRUE, NilErr) ELSE Decision(FALSE, NilErr)

\* isErrorRecoverable(ctx, err), with ctxErr = ctx.Err(): (recoverable, errr).
isErrorRecoverable(ctxErr, e) ==
    IF ctxErr # NilErr THEN Decision(FALSE, ctxErr)
    ELSE IF e # NilErr /\ AsURLError(e)
         THEN IF redirectsErrorRegex(e) THEN Decision(FALSE, e)
              ELSE IF schemeErrorRegex(e) THEN Decision(FALSE, e)
              ELSE IF AsUnknownAuthorityError(e) THEN Decision(FALSE, e)
              ELSE Decision(TRUE, NilErr)
         ELSE IF e # NilErr THEN Decision(TRUE, NilErr)
              ELSE Decision(FALSE, NilErr)

\* The retry policies a client is configured with: the default one, and the
\* two constant policies of the tests.
Policies == {"default", "always", "never"}

\* The error of its own that a caller's policy may return.
OverridingError == MkErr(FALSE, "override", "none")

\* c.cfg.RetryPolicy(req.Context(), err): the default policy, the constant
\* policies, or a caller's policy that asks for a retry and returns an
\* overriding error at once.
RetryPolicy(p, ctxErr, e) ==
    IF p = "default" THEN isErrorRecoverable(ctxErr, e)
    ELSE IF p = "always" THEN Decision(TRUE, NilErr)
    ELSE IF p = "retryWithError" THEN Decision(TRUE, OverridingError)
    ELSE Decision(FALSE, NilErr)

\* ------------------------------------------------------------- transports
(***************************************************************************)
(* What one call of http.Client.Do yields: a response (or none) and an     *)
(* error (or nil).  http.Client.Do wraps every error in a *url.Error.  A   *)
(* response is present together with an error only when the redirect       *)
(* check failed, and its body is then already closed by net/http.          *)
(***************************************************************************)
NoRes == [present |-> FALSE, closes |-> 0, drained |-> FALSE]

FreshRes == [present |-> TRUE, closes |-> 0, drained |-> FALSE]

Outcome(r, e) == [res |-> r, err |-> e]

OutOK == Outcome(FreshRes, NilErr)

OutTemporary == Outcome(NoRes, MkErr(TRUE, "tmp", "none"))

OutHTTP1Broken == Outcome(NoRes, MkErr(TRUE, "h1broken", "none"))

OutRedirects == Outcome([FreshRes EXCEPT !.closes = 1], MkErr(TRUE, "redirects", "none"))

OutScheme == Outcome(NoRes, MkErr(TRUE, "scheme", "none"))

OutUnknownAuthority == Outcome(NoRes, MkErr(TRUE, "tmp", "unknownCA"))

OutCanceled == Outcome(NoRes, MkErr(TRUE, "tmp", "canceled"))

AnyOutcome ==
    {OutOK, OutTemporary, OutHTTP1Broken, OutRedirects, OutScheme,
     OutUnknownAuthority, OutCanceled}

\* The errors of the three classes the default policy never retries.
NonRetryableOutcomes == {OutRedirects, OutScheme, OutUnknownAuthority}

\* Every failure that is not the protocol-version-mismatch signature.
FailingOutcomes == AnyOutcome \ {OutOK, OutHTTP1Broken}

\* A transport is described by the set of outcomes its calls may yield.
PrimaryTransports ==
    {AnyOutcome, {OutOK}, FailingOutcomes, NonRetryableOutcomes, {OutHTTP1Broken}}

FallbackTransports == {AnyOutcome, {OutOK}}

\* ------------------------------------------------------------ construction

\* cfg.HTTPClient as passed to NewClient: nil, a client whose Transport is an
\* *http.Transport (keep-alives on or off), or one with another RoundTripper.
HTTPClients == {"nil", "httpKeepAlive", "httpNoKeepAlive", "roundTripper"}

ConfigInputs ==
    [RetryMax : 0..MaxRetryMax, RetryPolicy : Policies,
     KillIdleConn : BOOLEAN, Timeout : {0, 1}]

\* client.internalHTTPClient as NewClient chooses it: [isHTTPTransport,
\* disablesKeepAlives] (b.DisableKeepAlives || b.MaxConnsPerHost < 0).
InternalHTTPClient(in, hc) ==
    IF hc = "nil"
    THEN [isHTTPTransport |-> TRUE, disablesKeepAlives |-> in.KillIdleConn]
    ELSE IF hc = "roundTripper"
    THEN [isHTTPTransport |-> FALSE, disablesKeepAlives |-> FALSE]
    ELSE [isHTTPTransport |-> TRUE, disablesKeepAlives |-> (hc = "httpNoKeepAlive")]

\* setKillIdleConnections: the flag the client ends up with.
setKillIdleConnections(in, t) ==
    IF t.isHTTPTransport THEN t.disablesKeepAlives ELSE in.KillIdleConn

\* What a caller hands to NewClient, as far as the idle-connection flag goes:
\* cfg.KillIdleConn and cfg.HTTPClient.
NewClientInput(in, hc) == [KillIdleConn |-> in.KillIdleConn, HTTPClient |-> hc]

\* NewClient(cfg): the configuration the constructed client holds.
NewClient(in, hc) ==
    [in EXCEPT !.KillIdleConn = setKillIdleConnections(in, InternalHTTPClient(in, hc))]

\* ------------------------------------------------------------------- state

VARIABLES
    cfgInput,        \* the KillIdleConn flag and HTTPClient NewClient was given
    cfg,             \* c.cfg after NewClient
    onError,         \* c.onError != nil
    primaryRT,       \* behaviour of c.internalHTTPClient
    fallbackRT,      \* behaviour of c.internalHTTP2Client
    requestCounter,  \* c.requestCounter
    closeIdleCount,  \* calls of c.internalHTTPClient.CloseIdleConnections()
    calls,           \* Client.Do calls started so far
    pc,              \* where the current Client.Do call stands
    attempt,         \* the engine's attempt count, from 0
    ctxDone,         \* ctx.Err() != nil for Do's own ctx (context.WithTimeout)
    reqCtx,          \* state of req.Context()
    res,             \* res of the work unit / of Do
    err,             \* err of the work unit / of Do
    dec,             \* (retry, checkErr) of the last policy call
    retErr,          \* the error Do returned
    primaryCalls,    \* c.internalHTTPClient.Do calls of the current Do call
    fallbackCalls,   \* c.internalHTTP2Client.Do calls of the current Do call
    waits,           \* backoff waits begun in the current Do call
    abortedAt,       \* primaryCalls when a backoff wait was aborted, else -1
    onRequestCount,  \* c.onRequest invocations of the current Do call
    onResponseCount, \* c.onResponse invocations of the current Do call
    onErrorCount,    \* c.onError invocations of the current Do call
    onErrorTries,    \* the tries argument of the last c.onError invocation, else -1
    pol,             \* a direct call of the default retry policy
    goroutines,      \* concurrent Do calls: where each stands in closeIdleConnections
    completed,       \* concurrent Do calls that have returned
    rdr,             \* the request body: a ReusableReadCloser (data, reader offset)
    lastBodyRead,    \* the body bytes the last transport call read
    readLog,         \* the Read and Close calls made on rdr directly, with results
    mu,              \* rdr.mu: 0 when unlocked, else the goroutine holding it
    readers,         \* goroutines calling rdr.Read: the frame of each call
    headers,         \* c.headers, the client's default headers
    rb               \* a RequestBuilder: stage, header, body and the calls made on it

clientVars == <<cfgInput, cfg, onError, primaryRT, fallbackRT>>

counterVars == <<requestCounter, closeIdleCount>>

ghostVars ==
    <<primaryCalls, fallbackCalls, waits, abortedAt, onRequestCount, onResponseCount,
      onErrorCount, onErrorTries>>

concVars == <<goroutines, completed>>

callVars == <<pc, attempt, ctxDone, reqCtx, res, err, dec, retErr>>

bodyVars == <<rdr, lastBodyRead>>

readerVars == <<readLog, mu, readers>>

builderVars == <<headers, rb>>

reqVars == <<bodyVars, readerVars, builderVars>>

vars == <<clientVars, counterVars, calls, callVars, ghostVars, pol, concVars, reqVars>>

\* ------------------------------------------------------- returned errors

RetNil == [kind |-> "nil", attempts |-> 0, status |-> FALSE, cause |-> NilErr]

\* fmt.Errorf("%s %s giving up after %d attempts: [response status %d: ]%w", ...)
GiveUpError_NoWrap(n, withStatus, cause) ==
    [kind |-> "giveup", attempts |-> n, status |-> withStatus, cause |-> NilErr]

GiveUpError(n, withStatus, cause) ==
    [kind |-> "giveup", attempts |-> n, status |-> withStatus, cause |-> cause]

\* What an attached onError hook may return for (res, err): the pair
\* unchanged, or no response and an error of its own wrapping err.
HookError(e) == [kind |-> "hook", attempts |-> 0, status |-> FALSE, cause |-> e]

RawError(e) ==
    IF e = NilErr THEN RetNil
    ELSE [kind |-> "raw", attempts |-> 0, status |-> FALSE, cause |-> e]

\* ------------------------------------------------- connection lifecycle

closeIdleConnections_OffByOne(kill, counter, closes) ==
    IF kill
    THEN IF counter < IdleThreshold - 1
         THEN [requestCounter |-> counter + 1, closeIdleCount |-> closes]
         ELSE [requestCounter |-> 0, closeIdleCount |-> closes + 1]
    ELSE [requestCounter |-> counter, closeIdleCount |-> closes]

\* closeIdleConnections: with c.cfg.KillIdleConn, count the request, or at the
\* threshold reset the counter and close the primary's idle connections.
closeIdleConnections(kill, counter, closes) ==
    IF kill
    THEN IF counter < IdleThreshold
         THEN [requestCounter |-> counter + 1, closeIdleCount |-> closes]
         ELSE [requestCounter |-> 0, closeIdleCount |-> closes + 1]
    ELSE [requestCounter |-> counter, closeIdleCount |-> closes]

drainBody_NoDrain(r) == r

\* drainBody: read up to RespReadLimit bytes of the body, then close it.
drainBody(r) == [r EXCEPT !.drained = TRUE, !.closes = @ + 1]

CloseBody_Skipped(r) == r

\* res.Body.Close()
CloseBody(r) == [r EXCEPT !.closes = @ + 1]

\* ------------------------------------------------------------ request body
(***************************************************************************)
(* request.ReusableReadCloser: the in-memory data and a bytes.Reader over  *)
(* it, of which the model keeps the read offset i.  A body handed to       *)
(* request.New is a raw value of some Go type holding some bytes; for the  *)
(* reader types the bytes are those io.ReadAll still finds, from the       *)
(* reader's own offset on.                                                 *)
(***************************************************************************)
Bytes == {1, 2}

Datas == UNION {[1..n -> Bytes] : n \in 0..MaxLen}

\* The dynamic types NewReusableReadCloser accepts, and one it does not.
SupportedKinds == {"nil", "bytes", "bytesPtr", "string", "buffer", "reader"}

BodyKinds == SupportedKinds \cup {"int"}

RawBody(kind, data, off) == [kind |-> kind, data |-> data, off |-> off]

BodyInputs ==
    {RawBody("nil", <<>>, 0), RawBody("int", <<>>, 0)}
      \cup {RawBody(k, d, 0) : k \in {"bytes", "bytesPtr", "string", "buffer"}, d \in Datas}
      \cup {RawBody("reader", d, o) : d \in Datas, o \in 0..1}

min(a, b) == IF a < b THEN a ELSE b

\* io.ReadAll(r) on a reader that has consumed off bytes of its content.
ReadAll(raw) == SubSeq(raw.data, min(raw.off, Len(raw.data)) + 1, Len(raw.data))

\* NewReusableReadCloser(raw): the reader over the input's bytes, offset 0,
\* or errUnsupportedType.
NewReusableReadCloser(raw) ==
    IF raw.kind = "nil" THEN [ok |-> TRUE, r |-> [data |-> <<>>, i |-> 0]]
    ELSE IF raw.kind \in {"bytes", "bytesPtr", "string", "buffer"}
    THEN [ok |-> TRUE, r |-> [data |-> raw.data, i |-> 0]]
    ELSE IF raw.kind = "reader"
    THEN [ok |-> TRUE, r |-> [data |-> ReadAll(raw), i |-> 0]]
    ELSE [ok |-> FALSE, r |-> [data |-> <<>>, i |-> 0]]

\* What a read hands back: the count, the bytes, the error and the reader
\* as the call leaves it.
ReadResult(n, b, e, r) == [n |-> n, bytes |-> b, err |-> e, r |-> r]

\* bytes.Reader.Read(p) with len(p) = k: io.EOF once the offset is at the
\* end, else the next min(k, remaining) bytes.
BytesReaderRead(r, k) ==
    IF r.i >= Len(r.data)
    THEN ReadResult(0, <<>>, "EOF", r)
    ELSE LET n == min(k, Len(r.data) - r.i)
         IN  ReadResult(n, SubSeq(r.data, r.i + 1, r.i + n), "nil",
                        [r EXCEPT !.i = r.i + n])

reset_NoSeek(r) == r

\* reset: r.reader.Seek(0, io.SeekStart)
reset(r) == [r EXCEPT !.i = 0]

Read_PassesEOF(r, k) ==
    IF Len(r.data) = 0
    THEN ReadResult(0, <<>>, "nil", r)
    ELSE LET x == BytesReaderRead(r, k)
         IN  IF x.err = "EOF" THEN [x EXCEPT !.r = reset(x.r)] ELSE x

Read_NoEmptyCheck(r, k) ==
    LET x == BytesReaderRead(r, k)
    IN  IF x.err = "EOF"
        THEN IF x.n > 0
             THEN [x EXCEPT !.err = "nil", !.r = reset(x.r)]
             ELSE BytesReaderRead(reset(x.r), k)
        ELSE x

\* ReusableReadCloser.Read(p) with len(p) = k, the mutex left aside.
Read(r, k) ==
    IF Len(r.data) = 0
    THEN ReadResult(0, <<>>, "nil", r)
    ELSE LET x == BytesReaderRead(r, k)
         IN  IF x.err = "EOF"
             THEN IF x.n > 0
                  THEN [x EXCEPT !.err = "nil", !.r = reset(x.r)]
                  ELSE BytesReaderRead(reset(x.r), k)
             ELSE x

\* The body bytes a transport call takes: io.Copy through
\* io.LimitReader(req.Body, n), a Read into what is left of the limit until
\* n bytes have come.
RECURSIVE ReadN(_, _)
ReadN(r, n) ==
    IF n = 0
    THEN [bytes |-> <<>>, r |-> r]
    ELSE LET x == Read(r, n)
             rest == ReadN(x.r, n - x.n)
         IN  [bytes |-> x.bytes \o rest.bytes, r |-> rest.r]

\* A request without a body (req.Body == nil, ContentLength 0).
NoBody == [data |-> <<>>, i |-> 0]

\* ------------------------------------------------------------ retry engine
(***************************************************************************)
(* retrier.RetryWithData(ctx, work, WithRetryMax, WithRetryWaitMin,        *)
(* WithRetryWaitMax, WithRetryBackoff): invoke the work unit; a nil error  *)
(* ends the loop; otherwise, while attempts remain, wait for the backoff   *)
(* delay (the wait ends at once when ctx is done, and the loop exits with  *)
(* ctx's error) and run the next attempt; retry-max + 1 attempts in all.   *)
(***************************************************************************)

\* The engine retries an outcome it is handed exactly when its error is set.
EngineRetries(e) == e # NilErr

\* Attempts remain while the attempt count, from 0, is below retry-max.
EngineAttemptsRemain(n, retryMax) == n < retryMax

EngineRetryMax_OneMore(c) == c.RetryMax + 1

EngineRetryMax_OneLess(c) == c.RetryMax - 1

\* retrier.WithRetryMax(c.cfg.RetryMax)
EngineRetryMax(c) == c.RetryMax

\* The attempt count Do puts in its error message and hands to onError.
ReportedAttempts(c) == c.RetryMax

\* -------------------------------------------------------------- Client.Do

NoDecision == Decision(FALSE, NilErr)

\* No Do call runs on another goroutine.
NoGoroutines == <<>>

\* No RequestBuilder is in use: Do is handed a ready request.
\* No RequestBuilder has been asked of the client.
NoBuilder ==
    [stage |-> "none", header |-> <<>>, body |-> RawBody("nil", <<>>, 0), ops |-> <<>>,
     n |-> 0]

\* The request Do is called with directly has no body, nothing reads a
\* reusable reader on the side and the client has no default headers.
InitNoRequest ==
    /\ rdr = NoBody
    /\ lastBodyRead = <<>>
    /\ readLog = <<>>
    /\ mu = 0
    /\ readers = <<>>
    /\ headers = <<>>
    /\ rb = NoBuilder

InCall == pc \notin {"idle", "done"}

\* Do is entered: ctx, cancel := context.WithTimeout(context.Background(),
\* c.cfg.Timeout), which is expired from the start when the timeout is 0.
DoEnter(limit) ==
    /\ pc \in {"idle", "done"}
    /\ calls < limit
    /\ calls' = calls + 1
    /\ pc' = "work"
    /\ attempt' = 0
    /\ ctxDone' = (cfg.Timeout = 0)
    /\ reqCtx' = "live"
    /\ res' = NoRes
    /\ err' = NilErr
    /\ dec' = NoDecision
    /\ retErr' = RetNil
    /\ primaryCalls' = 0
    /\ fallbackCalls' = 0
    /\ waits' = 0
    /\ abortedAt' = -1
    /\ onRequestCount' = 0
    /\ onResponseCount' = 0
    /\ onErrorCount' = 0
    /\ onErrorTries' = -1
    /\ UNCHANGED <<clientVars, counterVars, pol, concVars>>

\* Do called with a request made by request.New.
DoBeginAt(limit) ==
    /\ DoEnter(limit)
    /\ UNCHANGED reqVars

DoBegin == DoBeginAt(MaxCalls)

WorkOnRequest_SkipsHook ==
    /\ pc = "work"
    /\ pc' = "primary"
    /\ UNCHANGED <<clientVars, counterVars, calls, attempt, ctxDone, reqCtx, res, err,
                   dec, retErr, ghostVars, pol, concVars, reqVars>>

\* The work unit starts: c.onRequest(req.Request).
WorkOnRequest ==
    /\ pc = "work"
    /\ onRequestCount' = onRequestCount + 1
    /\ pc' = "primary"
    /\ UNCHANGED <<clientVars, counterVars, calls, attempt, ctxDone, reqCtx, res, err,
                   dec, retErr, primaryCalls, fallbackCalls, waits, abortedAt,
                   onResponseCount, onErrorCount, onErrorTries, pol,
                   concVars, reqVars>>

\* res, err = c.internalHTTPClient.Do(req.Request), then the fallback test.
\* The transport reads the request body, all of it or, when the exchange
\* ends early, a part of it.
WorkPrimary ==
    /\ pc = "primary"
    /\ \E out \in primaryRT :
          /\ res' = out.res
          /\ err' = out.err
          /\ pc' = IF out.err # NilErr /\ isErrorHTTP1Broken(out.err)
                   THEN "fallback" ELSE "policy"
    /\ primaryCalls' = primaryCalls + 1
    /\ \E k \in 0..Len(rdr.data) :
          /\ rdr' = ReadN(rdr, k).r
          /\ lastBodyRead' = ReadN(rdr, k).bytes
    /\ UNCHANGED <<clientVars, counterVars, calls, attempt, ctxDone, reqCtx, dec, retErr,
                   fallbackCalls, waits, abortedAt, onRequestCount, onResponseCount,
                   onErrorCount, onErrorTries, pol, concVars, readerVars, builderVars>>

WorkFallback_CallsOnRequest ==
    /\ pc = "fallback"
    /\ \E out \in fallbackRT :
          /\ res' = out.res
          /\ err' = out.err
    /\ fallbackCalls' = fallbackCalls + 1
    /\ onRequestCount' = onRequestCount + 1
    /\ \E k \in 0..Len(rdr.data) :
          /\ rdr' = ReadN(rdr, k).r
          /\ lastBodyRead' = ReadN(rdr, k).bytes
    /\ pc' = "policy"
    /\ UNCHANGED <<clientVars, counterVars, calls, attempt, ctxDone, reqCtx, dec, retErr,
                   primaryCalls, waits, abortedAt, onResponseCount, onErrorCount, onErrorTries, pol,
                   concVars, readerVars, builderVars>>

WorkFallback_KeepsPrimaryError ==
    /\ pc = "fallback"
    /\ fallbackCalls' = fallbackCalls + 1
    /\ \E k \in 0..Len(rdr.data) :
          /\ rdr' = ReadN(rdr, k).r
          /\ lastBodyRead' = ReadN(rdr, k).bytes
    /\ pc' = "policy"
    /\ UNCHANGED <<clientVars, counterVars, calls, attempt, ctxDone, reqCtx, res, err, dec,
                   retErr, primaryCalls, waits, abortedAt, onRequestCount, onResponseCount,
                   onErrorCount, onErrorTries, pol, concVars, readerVars, builderVars>>

\* res, err = c.internalHTTP2Client.Do(req.Request)
WorkFallback ==
    /\ pc = "fallback"
    /\ \E out \in fallbackRT :
          /\ res' = out.res
          /\ err' = out.err
    /\ fallbackCalls' = fallbackCalls + 1
    /\ \E k \in 0..Len(rdr.data) :
          /\ rdr' = ReadN(rdr, k).r
          /\ lastBodyRead' = ReadN(rdr, k).bytes
    /\ pc' = "policy"
    /\ UNCHANGED <<clientVars, counterVars, calls, attempt, ctxDone, reqCtx, dec, retErr,
                   primaryCalls, waits, abortedAt, onRequestCount, onResponseCount,
                   onErrorCount, onErrorTries, pol, concVars, readerVars, builderVars>>

WorkPolicy_HookOnAnyResponse ==
    /\ pc = "policy"
    /\ dec' = RetryPolicy(cfg.RetryPolicy, CtxErr(reqCtx), err)
    /\ onResponseCount' = IF res.present THEN onResponseCount + 1 ELSE onResponseCount
    /\ pc' = "return"
    /\ UNCHANGED <<clientVars, counterVars, calls, attempt, ctxDone, reqCtx, res, err,
                   retErr, primaryCalls, fallbackCalls, waits, abortedAt,
                   onRequestCount, onErrorCount, onErrorTries, pol, concVars, reqVars>>

\* retry, checkErr := c.cfg.RetryPolicy(req.Context(), err), then
\* c.onResponse(res) when err == nil && res != nil.
WorkPolicy ==
    /\ pc = "policy"
    /\ dec' = RetryPolicy(cfg.RetryPolicy, CtxErr(reqCtx), err)
    /\ onResponseCount' =
          IF err = NilErr /\ res.present THEN onResponseCount + 1 ELSE onResponseCount
    /\ pc' = "return"
    /\ UNCHANGED <<clientVars, counterVars, calls, attempt, ctxDone, reqCtx, res, err,
                   retErr, primaryCalls, fallbackCalls, waits, abortedAt,
                   onRequestCount, onErrorCount, onErrorTries, pol, concVars, reqVars>>

\* The error the work unit returns when the policy does not retry.
WorkError(d, e) == IF d.errr # NilErr THEN d.errr ELSE e

\* The end of the work unit: without retry, the policy's error replaces err
\* and closeIdleConnections runs; with retry, a successful response's body
\* is drained.  Either way (res, err) goes back to the engine.
WorkReturn ==
    /\ pc = "return"
    /\ IF ~dec.retry
       THEN /\ err' = WorkError(dec, err)
            /\ LET c == closeIdleConnections(cfg.KillIdleConn, requestCounter, closeIdleCount)
               IN  /\ requestCounter' = c.requestCounter
                   /\ closeIdleCount' = c.closeIdleCount
            /\ res' = res
       ELSE /\ res' = IF err = NilErr /\ res.present THEN drainBody(res) ELSE res
            /\ UNCHANGED <<err, counterVars>>
    /\ pc' = "engine"
    /\ UNCHANGED <<clientVars, calls, attempt, ctxDone, reqCtx, dec, retErr, ghostVars, pol,
                   concVars, reqVars>>

\* The engine, handed (res, err): done on a nil error or when no attempt
\* remains, else it starts the backoff wait.
EngineDecide ==
    /\ pc = "engine"
    /\ IF EngineRetries(err) /\ EngineAttemptsRemain(attempt, EngineRetryMax(cfg))
       THEN /\ pc' = "wait"
            /\ waits' = waits + 1
       ELSE /\ pc' = "after"
            /\ waits' = waits
    /\ UNCHANGED <<clientVars, counterVars, calls, attempt, ctxDone, reqCtx, res, err, dec,
                   retErr, primaryCalls, fallbackCalls, abortedAt, onRequestCount,
                   onResponseCount, onErrorCount, onErrorTries, pol,
                   concVars, reqVars>>

\* The backoff delay elapses with ctx still live: the next attempt starts.
WaitElapsed ==
    /\ pc = "wait"
    /\ ~ctxDone
    /\ attempt' = attempt + 1
    /\ pc' = "work"
    /\ UNCHANGED <<clientVars, counterVars, calls, ctxDone, reqCtx, res, err, dec, retErr,
                   ghostVars, pol, concVars, reqVars>>

\* ctx is done during the wait: the loop exits with ctx.Err().
WaitAborted ==
    /\ pc = "wait"
    /\ ctxDone
    /\ err' = CtxErr("deadline")
    /\ abortedAt' = primaryCalls
    /\ pc' = "after"
    /\ UNCHANGED <<clientVars, counterVars, calls, attempt, ctxDone, reqCtx, res, dec,
                   retErr, primaryCalls, fallbackCalls, waits, onRequestCount,
                   onResponseCount, onErrorCount, onErrorTries, pol,
                   concVars, reqVars>>

\* After the loop: with an onError hook, closeIdleConnections and the hook's
\* pair; else on an error, the body is closed, the error wrapped and
\* closeIdleConnections runs.
DoFinish ==
    /\ pc = "after"
    /\ IF onError
       THEN /\ LET c == closeIdleConnections(cfg.KillIdleConn, requestCounter, closeIdleCount)
               IN  /\ requestCounter' = c.requestCounter
                   /\ closeIdleCount' = c.closeIdleCount
            /\ \/ /\ res' = res
                  /\ retErr' = RawError(err)
               \/ /\ res' = NoRes
                  /\ retErr' = HookError(err)
       ELSE IF err # NilErr
       THEN /\ res' = IF res.present THEN CloseBody(res) ELSE res
            /\ retErr' = GiveUpError(ReportedAttempts(cfg), res.present, err)
            /\ LET c == closeIdleConnections(cfg.KillIdleConn, requestCounter, closeIdleCount)
               IN  /\ requestCounter' = c.requestCounter
                   /\ closeIdleCount' = c.closeIdleCount
       ELSE /\ retErr' = RetNil
            /\ UNCHANGED <<res, counterVars>>
    /\ onErrorCount' = IF onError THEN onErrorCount + 1 ELSE onErrorCount
    /\ onErrorTries' = IF onError THEN ReportedAttempts(cfg) ELSE onErrorTries
    /\ pc' = "done"
    /\ UNCHANGED <<clientVars, calls, attempt, ctxDone, reqCtx, err, dec, primaryCalls,
                   fallbackCalls, waits, abortedAt, onRequestCount, onResponseCount,
                   pol, concVars, reqVars>>

\* The deadline of Do's ctx passes (a positive c.cfg.Timeout).
CtxExpire ==
    /\ InCall
    /\ ~ctxDone
    /\ ctxDone' = TRUE
    /\ UNCHANGED <<clientVars, counterVars, calls, pc, attempt, reqCtx, res, err, dec,
                   retErr, ghostVars, pol, concVars, reqVars>>

\* The caller cancels the request's context, or its deadline passes.
ReqCtxDone ==
    /\ InCall
    /\ reqCtx = "live"
    /\ reqCtx' \in {"canceled", "deadline"}
    /\ UNCHANGED <<clientVars, counterVars, calls, pc, attempt, ctxDone, res, err, dec,
                   retErr, ghostVars, pol, concVars, reqVars>>

\* ---------------------------------------------------------- specifications

PolOff == [pc |-> "off", ctx |-> "live", err |-> NilErr, out |-> NoDecision]

InitCall ==
    /\ requestCounter = 0
    /\ closeIdleCount = 0
    /\ calls = 0
    /\ pc = "idle"
    /\ attempt = 0
    /\ ctxDone = FALSE
    /\ reqCtx = "live"
    /\ res = NoRes
    /\ err = NilErr
    /\ dec = NoDecision
    /\ retErr = RetNil
    /\ primaryCalls = 0
    /\ fallbackCalls = 0
    /\ waits = 0
    /\ abortedAt = -1
    /\ onRequestCount = 0
    /\ onResponseCount = 0
    /\ onErrorCount = 0
    /\ onErrorTries = -1
    /\ completed = 0

\* A client as NewClient constructs it, with or without an onError hook.
Init ==
    /\ \E in \in ConfigInputs, hc \in HTTPClients :
          /\ cfgInput = NewClientInput(in, hc)
          /\ cfg = NewClient(in, hc)
    /\ onError \in BOOLEAN
    /\ primaryRT \in PrimaryTransports
    /\ fallbackRT \in FallbackTransports
    /\ InitCall
    /\ InitNoRequest
    /\ goroutines = NoGoroutines
    /\ pol = PolOff

Next ==
    \/ DoBegin
    \/ WorkOnRequest
    \/ WorkPrimary
    \/ WorkFallback
    \/ WorkPolicy
    \/ WorkReturn
    \/ EngineDecide
    \/ WaitElapsed
    \/ WaitAborted
    \/ DoFinish
    \/ CtxExpire
    \/ ReqCtxDone

Spec == Init /\ [][Next]_vars

\* The steps of a running Do call: the goroutine keeps running, a transport
\* call returns (http.Client.Timeout bounds it) and the backoff timer fires.
DoStep ==
    \/ WorkOnRequest
    \/ WorkPrimary
    \/ WorkFallback
    \/ WorkPolicy
    \/ WorkReturn
    \/ EngineDecide
    \/ WaitElapsed
    \/ WaitAborted
    \/ DoFinish

\* One Do call of a client of any configuration whose transports may answer
\* each call in any way.
InitLive ==
    /\ Init
    /\ primaryRT = AnyOutcome
    /\ fallbackRT = AnyOutcome

DoBeginOnce == DoBeginAt(1)

NextLive ==
    \/ DoBeginOnce
    \/ DoStep
    \/ CtxExpire
    \/ ReqCtxDone

LiveSpec == InitLive /\ [][NextLive]_vars /\ WF_vars(DoStep)

\* A direct call of the default policy, DefaultRetryPolicy()(ctx, err), on
\* every context state and every error.
InitPolicy ==
    /\ LET in == [RetryMax |-> 0, RetryPolicy |-> "default",
                  KillIdleConn |-> FALSE, Timeout |-> 1]
       IN  /\ cfgInput = NewClientInput(in, "nil")
           /\ cfg = NewClient(in, "nil")
    /\ onError = FALSE
    /\ primaryRT = AnyOutcome
    /\ fallbackRT = AnyOutcome
    /\ InitCall
    /\ InitNoRequest
    /\ goroutines = NoGoroutines
    /\ pol \in [pc : {"call"}, ctx : CtxStates, err : {NilErr} \cup PolicyErrors,
                out : {NoDecision}]

PolicyCall ==
    /\ pol.pc = "call"
    /\ pol' = [pol EXCEPT !.pc = "ret",
                          !.out = RetryPolicy("default", CtxErr(pol.ctx), pol.err)]
    /\ UNCHANGED <<clientVars, counterVars, calls, callVars, ghostVars, concVars, reqVars>>

NextPolicy == PolicyCall

SpecPolicy == InitPolicy /\ [][NextPolicy]_vars

\* A client with idle-connection closing in effect whose calls all succeed
\* at their first attempt: the transport answers, the policy does not retry
\* a success, the request's context stays live and no onError hook is set.
InitIdle ==
    /\ \E in \in ConfigInputs, hc \in HTTPClients :
          /\ cfgInput = NewClientInput(in, hc)
          /\ cfg = NewClient(in, hc)
          /\ cfg.KillIdleConn
          /\ cfg.RetryPolicy \in {"default", "never"}
    /\ onError = FALSE
    /\ primaryRT = {OutOK}
    /\ fallbackRT = {OutOK}
    /\ InitCall
    /\ InitNoRequest
    /\ goroutines = NoGoroutines
    /\ pol = PolOff

DoBeginIdle == DoBeginAt(MaxIdleCalls)

NextIdle ==
    \/ DoBeginIdle
    \/ WorkOnRequest
    \/ WorkPrimary
    \/ WorkPolicy
    \/ WorkReturn
    \/ EngineDecide
    \/ DoFinish
    \/ CtxExpire

SpecIdle == InitIdle /\ [][NextIdle]_vars

(***************************************************************************)
(* Several goroutines call Do on one client whose idle-connection closing  *)
(* is in effect.  Each call succeeds at its first attempt with a policy    *)
(* that does not retry and no onError hook, so it runs                     *)
(* closeIdleConnections once (src/client.go:103).  Only the counter and    *)
(* the primary's pool are shared, and closeIdleConnections touches them in *)
(* separate atomic operations: Load, then Add or Store, then               *)
(* CloseIdleConnections.  A goroutine is at "idle" (no call running),      *)
(* "below" or "reached" (it has loaded the counter and found it below the  *)
(* threshold, or not) or "close" (it has stored 0).                        *)
(***************************************************************************)
InitConc ==
    /\ \E in \in ConfigInputs, hc \in HTTPClients :
          /\ cfgInput = NewClientInput(in, hc)
          /\ cfg = NewClient(in, hc)
          /\ cfg.KillIdleConn
          /\ cfg.RetryPolicy = "never"
          /\ cfg.RetryMax = 0
          /\ cfg.Timeout = 1
    /\ onError = FALSE
    /\ primaryRT = {OutOK}
    /\ fallbackRT = {OutOK}
    /\ InitCall
    /\ InitNoRequest
    /\ \E n \in 1..MaxGoroutines : goroutines = [g \in 1..n |-> "idle"]
    /\ pol = PolOff

\* Do calls begun by the goroutines so far.
ConcBegun == completed + Cardinality({g \in DOMAIN goroutines : goroutines[g] # "idle"})

LoadBelowThreshold_Inclusive(v) == v <= IdleThreshold

\* c.requestCounter.Load() < 100
LoadBelowThreshold(v) == v < IdleThreshold

\* A Do call of goroutine g gets to closeIdleConnections:
\* c.cfg.KillIdleConn holds and the counter is loaded and compared.
ConcLoad(g) ==
    /\ goroutines[g] = "idle"
    /\ ConcBegun < MaxCompleted
    /\ cfg.KillIdleConn
    /\ goroutines' = [goroutines EXCEPT ![g] =
                         IF LoadBelowThreshold(requestCounter) THEN "below" ELSE "reached"]
    /\ UNCHANGED <<clientVars, counterVars, calls, callVars, ghostVars, pol, completed, reqVars>>

\* c.requestCounter.Add(1), and the Do call returns.
ConcAdd(g) ==
    /\ goroutines[g] = "below"
    /\ requestCounter' = requestCounter + 1
    /\ goroutines' = [goroutines EXCEPT ![g] = "idle"]
    /\ completed' = completed + 1
    /\ UNCHANGED <<clientVars, closeIdleCount, calls, callVars, ghostVars, pol, reqVars>>

\* c.requestCounter.Store(0)
ConcStore(g) ==
    /\ goroutines[g] = "reached"
    /\ requestCounter' = 0
    /\ goroutines' = [goroutines EXCEPT ![g] = "close"]
    /\ UNCHANGED <<clientVars, closeIdleCount, calls, callVars, ghostVars, pol, completed,
                   reqVars>>

\* c.internalHTTPClient.CloseIdleConnections(), and the Do call returns.
ConcClose(g) ==
    /\ goroutines[g] = "close"
    /\ closeIdleCount' = closeIdleCount + 1
    /\ goroutines' = [goroutines EXCEPT ![g] = "idle"]
    /\ completed' = completed + 1
    /\ UNCHANGED <<clientVars, requestCounter, calls, callVars, ghostVars, pol, reqVars>>

\* Some goroutine takes its next step.
GoLoad == \E g \in DOMAIN goroutines : ConcLoad(g)

GoAdd == \E g \in DOMAIN goroutines : ConcAdd(g)

GoStore == \E g \in DOMAIN goroutines : ConcStore(g)

GoClose == \E g \in DOMAIN goroutines : ConcClose(g)

NextConc ==
    \/ GoLoad
    \/ GoAdd
    \/ GoStore
    \/ GoClose

SpecConc == InitConc /\ [][NextConc]_vars

(***************************************************************************)
(* A reusable reader on its own: built by NewReusableReadCloser from every *)
(* supported input, then read with buffers of every length and closed, one *)
(* call after the other.                                                   *)
(***************************************************************************)
\* The client the request-side specifications leave untouched.
InitPlainClient ==
    /\ LET in == [RetryMax |-> 0, RetryPolicy |-> "default",
                  KillIdleConn |-> FALSE, Timeout |-> 1]
       IN  /\ cfgInput = NewClientInput(in, "nil")
           /\ cfg = NewClient(in, "nil")
    /\ onError = FALSE
    /\ primaryRT = AnyOutcome
    /\ fallbackRT = AnyOutcome
    /\ InitCall
    /\ goroutines = NoGoroutines
    /\ pol = PolOff

InitReader ==
    /\ InitPlainClient
    /\ \E raw \in BodyInputs :
          /\ NewReusableReadCloser(raw).ok
          /\ rdr = NewReusableReadCloser(raw).r
    /\ lastBodyRead = <<>>
    /\ readLog = <<>>
    /\ mu = 0
    /\ readers = <<>>
    /\ headers = <<>>
    /\ rb = NoBuilder

LogEntry(op, k, x) == [op |-> op, k |-> k, n |-> x.n, bytes |-> x.bytes, err |-> x.err]

\* n, err := r.Read(p), for a buffer of any length up to one past MaxLen.
ReaderRead ==
    /\ Len(readLog) < MaxReads
    /\ \E k \in 0..(MaxLen + 1) :
          LET x == Read(rdr, k)
          IN  /\ rdr' = x.r
              /\ readLog' = Append(readLog, LogEntry("Read", k, x))
    /\ UNCHANGED <<clientVars, counterVars, calls, callVars, ghostVars, pol, concVars,
                   lastBodyRead, mu, readers, builderVars>>

\* err := r.Close(): a no-op that returns nil.
ReaderClose ==
    /\ Len(readLog) < MaxReads
    /\ readLog' = Append(readLog, LogEntry("Close", 0, ReadResult(0, <<>>, "nil", rdr)))
    /\ UNCHANGED <<clientVars, counterVars, calls, callVars, ghostVars, pol, concVars,
                   bodyVars, mu, readers, builderVars>>

NextReader ==
    \/ ReaderRead
    \/ ReaderClose

SpecReader == InitReader /\ [][NextReader]_vars

(***************************************************************************)
(* One Do call of a request with a body, request.New(method, URL, body)    *)
(* for every supported body, on a client with one retry whose transports   *)
(* may answer each call in any way.                                        *)
(***************************************************************************)
InitBody ==
    /\ LET in == [RetryMax |-> 1, RetryPolicy |-> "default",
                  KillIdleConn |-> FALSE, Timeout |-> 1]
       IN  /\ cfgInput = NewClientInput(in, "nil")
           /\ cfg = NewClient(in, "nil")
    /\ onError = FALSE
    /\ primaryRT = AnyOutcome
    /\ fallbackRT = AnyOutcome
    /\ InitCall
    /\ goroutines = NoGoroutines
    /\ pol = PolOff
    /\ \E raw \in BodyInputs :
          /\ NewReusableReadCloser(raw).ok
          /\ rdr = NewReusableReadCloser(raw).r
    /\ lastBodyRead = <<>>
    /\ readLog = <<>>
    /\ mu = 0
    /\ readers = <<>>
    /\ headers = <<>>
    /\ rb = NoBuilder

SpecBody == InitBody /\ [][NextLive]_vars

(***************************************************************************)
(* Several goroutines calling Read on one *ReusableReadCloser, each with a *)
(* buffer at least as long as the data.  Read is followed statement by     *)
(* statement: r.mu.Lock(), the empty check and the first r.reader.Read,    *)
(* r.reset(), the second r.reader.Read, and the deferred r.mu.Unlock()     *)
(* with the return.                                                        *)
(***************************************************************************)
Goroutines == 1..MaxReaders

IdleFrame == [pc |-> "idle", k |-> 0, n |-> 0, bytes |-> <<>>, err |-> "nil"]

MutexFree_NoMutex(m) == TRUE

\* r.mu.Lock() goes through when no goroutine holds the mutex.
MutexFree(m) == m = 0

InitReaderConc ==
    /\ InitPlainClient
    /\ \E raw \in BodyInputs :
          /\ NewReusableReadCloser(raw).ok
          /\ rdr = NewReusableReadCloser(raw).r
    /\ lastBodyRead = <<>>
    /\ readLog = <<>>
    /\ mu = 0
    /\ readers = [g \in Goroutines |-> IdleFrame]
    /\ headers = <<>>
    /\ rb = NoBuilder

\* The Read calls begun and not yet returned.
ActiveReads == Cardinality({g \in Goroutines : readers[g].pc # "idle"})

\* Goroutine g calls r.Read(p) with len(p) = k >= len(r.data).
RdCall(g) ==
    /\ readers[g].pc = "idle"
    /\ Len(readLog) + ActiveReads < MaxReads
    /\ \E k \in {Len(rdr.data), Len(rdr.data) + 1} :
          readers' = [readers EXCEPT ![g] = [IdleFrame EXCEPT !.pc = "lock", !.k = k]]
    /\ UNCHANGED <<clientVars, counterVars, calls, callVars, ghostVars, pol, concVars,
                   bodyVars, readLog, mu, builderVars>>

\* r.mu.Lock()
RdLock(g) ==
    /\ readers[g].pc = "lock"
    /\ MutexFree(mu)
    /\ mu' = g
    /\ readers' = [readers EXCEPT ![g].pc = "first"]
    /\ UNCHANGED <<clientVars, counterVars, calls, callVars, ghostVars, pol, concVars,
                   bodyVars, readLog, builderVars>>

\* if len(r.data) == 0 { return }, then n, err = r.reader.Read(p); a plain
\* result or io.EOF with bytes read is ready to return, io.EOF with no
\* bytes goes on to the reset.
RdFirst(g) ==
    /\ readers[g].pc = "first"
    /\ IF Len(rdr.data) = 0
       THEN /\ readers' = [readers EXCEPT ![g].pc = "unlock"]
            /\ rdr' = rdr
       ELSE LET x == BytesReaderRead(rdr, readers[g].k)
            IN  IF x.err = "EOF" /\ x.n = 0
                THEN /\ readers' = [readers EXCEPT ![g].pc = "reset"]
                     /\ rdr' = x.r
                ELSE /\ readers' = [readers EXCEPT ![g] =
                            [pc |-> "unlock", k |-> @.k, n |-> x.n,
                             bytes |-> x.bytes, err |-> "nil"]]
                     /\ rdr' = IF x.err = "EOF" THEN reset(x.r) ELSE x.r
    /\ UNCHANGED <<clientVars, counterVars, calls, callVars, ghostVars, pol, concVars,
                   lastBodyRead, readLog, mu, builderVars>>

\* r.reset()
RdReset(g) ==
    /\ readers[g].pc = "reset"
    /\ rdr' = reset(rdr)
    /\ readers' = [readers EXCEPT ![g].pc = "second"]
    /\ UNCHANGED <<clientVars, counterVars, calls, callVars, ghostVars, pol, concVars,
                   lastBodyRead, readLog, mu, builderVars>>

\* n, err = r.reader.Read(p), the second time
RdSecond(g) ==
    /\ readers[g].pc = "second"
    /\ LET x == BytesReaderRead(rdr, readers[g].k)
       IN  /\ readers' = [readers EXCEPT ![g] =
                  [pc |-> "unlock", k |-> @.k, n |-> x.n, bytes |-> x.bytes,
                   err |-> x.err]]
           /\ rdr' = x.r
    /\ UNCHANGED <<clientVars, counterVars, calls, callVars, ghostVars, pol, concVars,
                   lastBodyRead, readLog, mu, builderVars>>

\* The deferred r.mu.Unlock(), and Read returns (n, err).
RdUnlock(g) ==
    /\ readers[g].pc = "unlock"
    /\ mu' = 0
    /\ readLog' = Append(readLog, LogEntry("Read", readers[g].k, readers[g]))
    /\ readers' = [readers EXCEPT ![g] = IdleFrame]
    /\ UNCHANGED <<clientVars, counterVars, calls, callVars, ghostVars, pol, concVars,
                   bodyVars, builderVars>>

GoRdCall == \E g \in Goroutines : RdCall(g)

GoRdLock == \E g \in Goroutines : RdLock(g)

GoRdFirst == \E g \in Goroutines : RdFirst(g)

GoRdReset == \E g \in Goroutines : RdReset(g)

GoRdSecond == \E g \in Goroutines : RdSecond(g)

GoRdUnlock == \E g \in Goroutines : RdUnlock(g)

NextReaderConc ==
    \/ GoRdCall
    \/ GoRdLock
    \/ GoRdFirst
    \/ GoRdReset
    \/ GoRdSecond
    \/ GoRdUnlock

SpecReaderConc == InitReaderConc /\ [][NextReaderConc]_vars

(***************************************************************************)
(* The RequestBuilder: Client.Request() copies the client's default        *)
(* headers into a new http.Header, AddHeader and SetHeader change it,      *)
(* Body keeps the raw body, Build makes the request with request.New and   *)
(* Send builds and, unless Build failed, calls Client.Do.  The method and  *)
(* the URL are taken to be valid.  An http.Header maps a canonical key to  *)
(* its values in order; a key without values is absent.                    *)
(***************************************************************************)
Keys == {"X-A", "x-a", "X-B"}

DefaultValues == {"d", "e"}

CallValues == {"p", "q"}

\* textproto.CanonicalMIMEHeaderKey
CanonicalMIMEHeaderKey(k) == IF k = "x-a" THEN "X-A" ELSE k

CanonKeys == {CanonicalMIMEHeaderKey(k) : k \in Keys}

\* http.Header.Set(key, value)
HeaderSet(h, key, value) == [h EXCEPT ![CanonicalMIMEHeaderKey(key)] = <<value>>]

HeaderAdd_Replaces(h, key, value) == HeaderSet(h, key, value)

\* http.Header.Add(key, value)
HeaderAdd(h, key, value) == [h EXCEPT ![CanonicalMIMEHeaderKey(key)] = Append(@, value)]

\* http.Header.Get(key): the first value of the key, "" when absent.
HeaderGet(h, key) ==
    IF h[CanonicalMIMEHeaderKey(key)] = <<>> THEN "" ELSE h[CanonicalMIMEHeaderKey(key)][1]

\* The maps WithHeaders may be given.
ClientHeaders == UNION {[S -> DefaultValues] : S \in SUBSET Keys}

\* for k, v := range c.headers { builder.header.Set(k, v) }: the range runs
\* in any order, so of the defaults whose keys have one canonical form the
\* last one set, any of them, stays.
DefaultHeaders(hs) ==
    {h \in [CanonKeys -> {<<>>} \cup {<<v>> : v \in DefaultValues}] :
        \A c \in CanonKeys :
            IF \E k \in DOMAIN hs : CanonicalMIMEHeaderKey(k) = c
            THEN \E k \in DOMAIN hs : CanonicalMIMEHeaderKey(k) = c /\ h[c] = <<hs[k]>>
            ELSE h[c] = <<>>}

\* The bytes of the bodies given to a builder: none or one.
BuilderDatas == {<<>>, <<1>>, <<2>>}

\* The bodies given to a builder: those NewReusableReadCloser is handed, a
\* function returning a reader, and a reusable reader by value or pointer.
BuilderBodies ==
    {raw \in BodyInputs : raw.data \in BuilderDatas}
      \cup {RawBody(k, d, o) : k \in {"func", "rrcValue", "rrcPtr"},
                               d \in BuilderDatas, o \in 0..1}

\* getReusableBodyReadCloser(raw): no reader for nil, the reusable reader
\* itself, the reader made of what the function returns, or what
\* NewReusableReadCloser makes of any other value.
getReusableBodyReadCloser(raw) ==
    IF raw.kind = "nil" THEN [ok |-> TRUE, r |-> NoBody]
    ELSE IF raw.kind \in {"rrcValue", "rrcPtr"}
    THEN [ok |-> TRUE, r |-> [data |-> raw.data, i |-> min(raw.off, Len(raw.data))]]
    ELSE IF raw.kind = "func"
    THEN NewReusableReadCloser(RawBody("reader", raw.data, raw.off))
    ELSE NewReusableReadCloser(raw)

\* The error Build and Send return when the body's type is not supported.
BuildError == [kind |-> "unsupported", attempts |-> 0, status |-> FALSE, cause |-> NilErr]

ClientRequest_ReusesHeader ==
    /\ \/ rb.stage \in {"none", "built", "invalid", "failed"}
       \/ rb.stage = "sent" /\ pc = "done"
    /\ rb.n < MaxBuilders
    /\ \E h \in DefaultHeaders(headers) :
          rb' = [stage |-> "building",
                 header |-> IF rb.stage = "none" THEN h ELSE rb.header,
                 body |-> RawBody("nil", <<>>, 0), ops |-> <<>>, n |-> rb.n + 1]
    /\ UNCHANGED <<clientVars, counterVars, calls, callVars, ghostVars, pol, concVars,
                   bodyVars, readerVars, headers>>

\* builder := c.Request()
ClientRequest ==
    /\ \/ rb.stage \in {"none", "built", "invalid", "failed"}
       \/ rb.stage = "sent" /\ pc = "done"
    /\ rb.n < MaxBuilders
    /\ \E h \in DefaultHeaders(headers) :
          rb' = [stage |-> "building", header |-> h, body |-> RawBody("nil", <<>>, 0),
                 ops |-> <<>>, n |-> rb.n + 1]
    /\ UNCHANGED <<clientVars, counterVars, calls, callVars, ghostVars, pol, concVars,
                   bodyVars, readerVars, headers>>

HeaderOp(mode, key, value) == [mode |-> mode, key |-> key, value |-> value]

\* b.AddHeader(key, value)
BuilderAddHeader ==
    /\ rb.stage = "building"
    /\ Len(rb.ops) < MaxOps
    /\ \E key \in Keys, value \in CallValues :
          rb' = [rb EXCEPT !.header = HeaderAdd(rb.header, key, value),
                           !.ops = Append(@, HeaderOp("append", key, value))]
    /\ UNCHANGED <<clientVars, counterVars, calls, callVars, ghostVars, pol, concVars,
                   bodyVars, readerVars, headers>>

\* b.SetHeader(key, value)
BuilderSetHeader ==
    /\ rb.stage = "building"
    /\ Len(rb.ops) < MaxOps
    /\ \E key \in Keys, value \in CallValues :
          rb' = [rb EXCEPT !.header = HeaderSet(rb.header, key, value),
                           !.ops = Append(@, HeaderOp("replace", key, value))]
    /\ UNCHANGED <<clientVars, counterVars, calls, callVars, ghostVars, pol, concVars,
                   bodyVars, readerVars, headers>>

\* b.Body(body), with a body that is not nil
BuilderBody ==
    /\ rb.stage = "building"
    /\ rb.body.kind = "nil"
    /\ \E raw \in BuilderBodies :
          /\ raw.kind # "nil"
          /\ rb' = [rb EXCEPT !.body = raw]
    /\ UNCHANGED <<clientVars, counterVars, calls, callVars, ghostVars, pol, concVars,
                   bodyVars, readerVars, headers>>

\* req, err := b.Build(): request.New(b.method, b._URL, b.body), and on
\* success req.Request.Header = b.header.
BuilderBuild ==
    /\ rb.stage = "building"
    /\ LET body == getReusableBodyReadCloser(rb.body)
       IN  IF body.ok
           THEN /\ rb' = [rb EXCEPT !.stage = "built"]
                /\ rdr' = body.r
           ELSE /\ rb' = [rb EXCEPT !.stage = "invalid"]
                /\ rdr' = rdr
    /\ UNCHANGED <<clientVars, counterVars, calls, callVars, ghostVars, pol, concVars,
                   lastBodyRead, readerVars, headers>>

BuilderSend_IgnoresBuildError ==
    /\ rb.stage = "building"
    /\ pc \in {"idle", "done"}
    /\ LET body == getReusableBodyReadCloser(rb.body)
       IN  /\ rb' = [rb EXCEPT !.stage = IF body.ok THEN "sent" ELSE "failed"]
           /\ rdr' = body.r
           /\ DoEnter(MaxBuilders)
    /\ UNCHANGED <<lastBodyRead, readerVars, headers>>

\* res, err := b.Send(): Build, and its error returned with no response, or
\* Do entered with the request built.
BuilderSend ==
    /\ rb.stage = "building"
    /\ pc \in {"idle", "done"}
    /\ LET body == getReusableBodyReadCloser(rb.body)
       IN  IF body.ok
           THEN /\ rb' = [rb EXCEPT !.stage = "sent"]
                /\ rdr' = body.r
                /\ DoEnter(MaxBuilders)
           ELSE /\ rb' = [rb EXCEPT !.stage = "failed"]
                /\ rdr' = rdr
                /\ res' = NoRes
                /\ retErr' = BuildError
                /\ UNCHANGED <<clientVars, counterVars, calls, pc, attempt, ctxDone, reqCtx,
                               err, dec, ghostVars, pol, concVars>>
    /\ UNCHANGED <<lastBodyRead, readerVars, headers>>

\* Builders of a client with any default headers, given per-call headers
\* and built.
InitBuild ==
    /\ InitPlainClient
    /\ rdr = NoBody
    /\ lastBodyRead = <<>>
    /\ readLog = <<>>
    /\ mu = 0
    /\ readers = <<>>
    /\ headers \in ClientHeaders
    /\ rb = NoBuilder

NextBuild ==
    \/ ClientRequest
    \/ BuilderAddHeader
    \/ BuilderSetHeader
    \/ BuilderBuild

SpecBuild == InitBuild /\ [][NextBuild]_vars

\* Builders of a client without retries, given a body of any type and sent.
InitSend ==
    /\ \E kill \in BOOLEAN :
          LET in == [RetryMax |-> 0, RetryPolicy |-> "default",
                     KillIdleConn |-> kill, Timeout |-> 1]
          IN  /\ cfgInput = NewClientInput(in, "nil")
              /\ cfg = NewClient(in, "nil")
    /\ onError \in BOOLEAN
    /\ primaryRT = AnyOutcome
    /\ fallbackRT = AnyOutcome
    /\ InitCall
    /\ goroutines = NoGoroutines
    /\ pol = PolOff
    /\ rdr = NoBody
    /\ lastBodyRead = <<>>
    /\ readLog = <<>>
    /\ mu = 0
    /\ readers = <<>>
    /\ headers = <<>>
    /\ rb = NoBuilder

\* With retry-max 0 the engine never waits: a Do call is its one attempt.
NextSend ==
    \/ ClientRequest
    \/ BuilderBody
    \/ BuilderSend
    \/ WorkOnRequest
    \/ WorkPrimary
    \/ WorkFallback
    \/ WorkPolicy
    \/ WorkReturn
    \/ EngineDecide
    \/ DoFinish
    \/ CtxExpire
    \/ ReqCtxDone

SpecSend == InitSend /\ [][NextSend]_vars

(***************************************************************************)
(* One Do call of a client whose retry policy returns retry = true         *)
(* together with an overriding error, whatever the attempt's outcome.      *)
(***************************************************************************)
InitOverride ==
    /\ \E n \in 0..MaxRetryMax :
          LET in == [RetryMax |-> n, RetryPolicy |-> "retryWithError",
                     KillIdleConn |-> FALSE, Timeout |-> 1]
          IN  /\ cfgInput = NewClientInput(in, "nil")
              /\ cfg = NewClient(in, "nil")
    /\ onError \in BOOLEAN
    /\ primaryRT = AnyOutcome
    /\ fallbackRT = AnyOutcome
    /\ InitCall
    /\ InitNoRequest
    /\ goroutines = NoGoroutines
    /\ pol = PolOff

SpecOverride == InitOverride /\ [][NextLive]_vars

(***************************************************************************)
(* Two clients made from one *ClientConfiguration.  NewClient keeps the    *)
(* pointer it is given (client.cfg = cfg), so cfg is the object both       *)
(* clients read; the Do calls are the first client's.  The caller sets     *)
(* cfg.HTTPClient anew before the second NewClient(cfg).                   *)
(***************************************************************************)
InitShared ==
    /\ \E p \in Policies, kill \in BOOLEAN, hc \in HTTPClients :
          LET in == [RetryMax |-> 1, RetryPolicy |-> p,
                     KillIdleConn |-> kill, Timeout |-> 1]
          IN  /\ cfgInput = NewClientInput(in, hc)
              /\ cfg = NewClient(in, hc)
    /\ onError = FALSE
    /\ primaryRT = AnyOutcome
    /\ fallbackRT = AnyOutcome
    /\ InitCall
    /\ InitNoRequest
    /\ goroutines = NoGoroutines
    /\ pol = PolOff

\* NewClient(cfg) once more, with another cfg.HTTPClient: it fills in and
\* rewrites the fields of the object the first client holds.
NewClientAgain ==
    /\ \E hc \in HTTPClients :
          /\ hc # cfgInput.HTTPClient
          /\ cfg' = NewClient(cfg, hc)
    /\ UNCHANGED <<cfgInput, onError, primaryRT, fallbackRT, counterVars, calls, callVars,
                   ghostVars, pol, concVars, reqVars>>

NextShared ==
    \/ NewClientAgain
    \/ DoBeginOnce
    \/ DoStep
    \/ CtxExpire
    \/ ReqCtxDone

SpecShared == InitShared /\ [][NextShared]_vars

\* ------------------------------------------------------------------ claims

\* No backoff wait of the current call was cut short by Do's ctx.
NoWaitAborted == abortedAt = -1

C2_NonRetryableOnce ==
    (/\ cfg.RetryPolicy = "default"
     /\ primaryRT \subseteq NonRetryableOutcomes
     /\ reqCtx = "live")
    => /\ primaryCalls <= 1
       /\ waits = 0

\* C3: when every primary call fails with the version-mismatch error and the
\* fallback transport succeeds, a Do call whose request context stayed live
\* returns after exactly 1 primary call and 1 fallback call, with no backoff
\* wait, for every retry-max (1 included); without an onError hook it
\* returns the response and a nil error.
C3_FallbackKeepsBudget ==
    (/\ pc = "done"
     /\ primaryRT = {OutHTTP1Broken}
     /\ fallbackRT = {OutOK}
     /\ reqCtx = "live")
    => /\ primaryCalls = 1
       /\ fallbackCalls = 1
       /\ waits = 0
       /\ attempt = 0
       /\ (~onError => retErr = RetNil /\ res.present)

C3_Witness ==
    /\ pc = "done"
    /\ cfg.RetryMax = 1
    /\ primaryRT = {OutHTTP1Broken}
    /\ fallbackRT = {OutOK}
    /\ reqCtx = "live"
    /\ ~onError
    /\ primaryCalls = 1
    /\ fallbackCalls = 1
    /\ retErr = RetNil
    /\ res.present

\* C4: with idle-connection closing in effect and the counter starting at 0,
\* in a sequence of Do calls that each succeed at their first attempt no
\* call up to the 100th closes the primary's idle connections, and the 101st
\* has closed them exactly once and reset the counter to 0 when it returns.
C4_CloseAtCall101 ==
    (cfg.KillIdleConn /\ ~onError /\ primaryRT = {OutOK})
    => /\ calls <= IdleThreshold => closeIdleCount = 0
       /\ (calls <= IdleThreshold /\ pc = "done") => requestCounter = calls
       /\ calls = IdleThreshold + 1 => closeIdleCount <= 1
       /\ (calls = IdleThreshold + 1 /\ pc = "done")
             => (closeIdleCount = 1 /\ requestCounter = 0)

C4_Witness ==
    /\ cfg.KillIdleConn
    /\ calls = IdleThreshold + 1
    /\ pc = "done"
    /\ closeIdleCount = 1
    /\ requestCounter = 0
    /\ primaryCalls = 1
    /\ retErr = RetNil

\* C5: every Do call terminates, for every retry policy and transport: a
\* call that has begun reaches the state where Do has returned, and it never
\* makes more than retry-max + 1 attempts.
C5_Terminates ==
    /\ [](attempt <= cfg.RetryMax /\ onRequestCount <= cfg.RetryMax + 1
            /\ primaryCalls <= cfg.RetryMax + 1)
    /\ (InCall ~> pc = "done")

C5_Witness ==
    /\ pc = "done"
    /\ cfg.RetryPolicy = "always"
    /\ primaryRT = AnyOutcome
    /\ cfg.RetryMax = MaxRetryMax
    /\ onRequestCount = MaxRetryMax + 1
    /\ fallbackCalls = MaxRetryMax + 1

NonRetryable(e) ==
    /\ e # NilErr
    /\ e.url
    /\ (e.text \in {"redirects", "scheme"} \/ e.wraps = "unknownCA")

\* C7: called with a context that is cancelled or past its deadline, the
\* default policy returns retry = false and the context's own error, for
\* every attempt error, nil and the non-retryable classes included.
C7_ContextFirst ==
    (pol.pc = "ret" /\ pol.ctx # "live")
    => /\ pol.out.retry = FALSE
       /\ pol.out.errr = CtxErr(pol.ctx)
       /\ pol.out.errr # NilErr
       /\ pol.out.errr # pol.err

C7_Witness ==
    /\ pol.pc = "ret"
    /\ pol.ctx = "canceled"
    /\ pol.err = MkErr(TRUE, "tmp", "unknownCA")
    /\ pol.out = Decision(FALSE, CtxErr("canceled"))

\* C8: the default policy returns retry = true exactly when the context is
\* live, the error is non-nil and it is not a url.Error of the three
\* non-retryable classes.
C8_RetryExactly ==
    pol.pc = "ret"
    => (pol.out.retry <=> (/\ pol.ctx = "live"
                           /\ pol.err # NilErr
                           /\ ~NonRetryable(pol.err)))

C8_Witness ==
    /\ pol.pc = "ret"
    /\ pol.ctx = "live"
    /\ pol.err = MkErr(FALSE, "redirects", "unknownCA")
    /\ pol.out.retry

\* C9: for a live context the default policy's overriding error is the
\* attempt error itself for a url.Error of a non-retryable class and nil for
\* every other input; it never returns retry = true with an overriding error.
C9_OverridingError ==
    pol.pc = "ret"
    => /\ pol.ctx = "live"
          => pol.out.errr = (IF NonRetryable(pol.err) THEN pol.err ELSE NilErr)
       /\ ~(pol.out.retry /\ pol.out.errr # NilErr)

C9_Witness ==
    /\ pol.pc = "ret"
    /\ pol.ctx = "live"
    /\ pol.err = MkErr(TRUE, "scheme", "none")
    /\ pol.out = Decision(FALSE, pol.err)

\* C10: with retry-max N, an always-retry policy and a transport that always
\* errors, the error Do returns reports the attempts actually made, N+1.
C10_ReportsAttempts ==
    (/\ pc = "done"
     /\ cfg.RetryPolicy = "always"
     /\ primaryRT \subseteq FailingOutcomes
     /\ ~onError
     /\ NoWaitAborted)
    => /\ retErr.kind = "giveup"
       /\ retErr.attempts = primaryCalls
       /\ retErr.attempts = cfg.RetryMax + 1

\* C11: when the default policy stops the call at its first attempt on a
\* url.Error of a non-retryable class (request context live, no onError
\* hook), Do returns that error itself, not wrapped in a giving-up error.
C11_VerbatimError ==
    (/\ pc = "done"
     /\ cfg.RetryPolicy = "default"
     /\ ~onError
     /\ reqCtx = "live"
     /\ primaryCalls = 1
     /\ NonRetryable(err))
    => retErr = RawError(err)

\* C12: without an onError hook, a Do call that has returned has returned
\* exactly one of a response and an error.
C12_ResponseXorError ==
    (pc = "done" /\ ~onError) => (res.present <=> retErr = RetNil)

\* C13 (as amended): when the loop ends in failure and the last attempt left
\* a response, Do itself has not closed or drained its body before the loop
\* ends; without an onError hook Do then closes it exactly once, and with a
\* hook Do does not close it: the hook is handed the response as it is.
C13_ClosesOnFailure ==
    /\ []((pc = "after" /\ err # NilErr /\ res.present)
            => (~res.drained /\ res \in {o.res : o \in AnyOutcome}))
    /\ [][(pc = "after" /\ pc' = "done" /\ err # NilErr /\ res.present)
            => IF onError THEN res' \in {res, NoRes}
               ELSE res' = [res EXCEPT !.closes = @ + 1]]_vars

C13_Witness ==
    /\ pc = "done"
    /\ ~onError
    /\ err # NilErr
    /\ retErr.kind = "giveup"
    /\ res = [FreshRes EXCEPT !.closes = 1]

\* C13 as stated: in every configuration, a Do call that ended in failure
\* with a response from its last attempt has that body closed exactly once.
C13_ClosedExactlyOnce ==
    (pc = "done" /\ err # NilErr /\ res.present) => res.closes = 1

\* C14: with idle-connection closing in effect, the first Do call of a
\* client has advanced the counter by one step for each of its attempts
\* when it returns.
C14_OncePerAttempt ==
    (pc = "done" /\ calls = 1 /\ cfg.KillIdleConn) => requestCounter = onRequestCount

\* No goroutine is inside a Do call.
AllIdle == \A g \in DOMAIN goroutines : goroutines[g] = "idle"

\* C15 (as amended): the idle-connection counter is never negative and never
\* above the threshold 100 while Do calls follow one another; it holds 100
\* between the 100th call and the 101st, which resets it.  With n goroutines
\* in Do at a time it never exceeds 100 + n - 1.
C15_CounterRange ==
    /\ requestCounter >= 0
    /\ requestCounter <= IdleThreshold + Len(goroutines) - 1
    /\ (AllIdle /\ completed <= IdleThreshold) => requestCounter = completed

C15_Witness ==
    /\ Len(goroutines) = 1
    /\ AllIdle
    /\ completed = IdleThreshold
    /\ requestCounter = IdleThreshold
    /\ closeIdleCount = 0

\* C15 as stated: the counter lies in [0, 100).
C15_BelowThreshold == requestCounter >= 0 /\ requestCounter < IdleThreshold

\* C16: once the concurrent Do calls have returned, the counter and the
\* number of forced closes are those of the same calls made one after the
\* other: K calls leave floor(K / 101) closes and the counter at K mod 101.
C16_Linearizable ==
    AllIdle => /\ closeIdleCount = completed \div (IdleThreshold + 1)
               /\ requestCounter = completed % (IdleThreshold + 1)

\* C17: the connection lifecycle manager is in effect exactly when NewClient
\* was given KillIdleConn = true: the first Do call of a client whose policy
\* never retries has advanced the counter when it returns if the flag was
\* true, for every primary transport, and has left it at 0 if it was false.
C17_EnabledIffFlag ==
    (pc = "done" /\ calls = 1 /\ cfg.RetryPolicy = "never")
    => (requestCounter > 0 <=> cfgInput.KillIdleConn)

\* C18 (as amended): the onRequest hook fires exactly once for each attempt
\* of a call, before the attempt's primary transport call; it does not fire
\* again before the fallback call of the same attempt.
C18_OncePerAttempt ==
    /\ [](pc # "idle"
            => /\ onRequestCount = primaryCalls + (IF pc = "primary" THEN 1 ELSE 0)
               /\ onRequestCount = attempt + (IF pc = "work" THEN 0 ELSE 1)
               /\ fallbackCalls <= primaryCalls)
    /\ [][fallbackCalls' = fallbackCalls + 1
            => (onRequestCount' = onRequestCount /\ onRequestCount = primaryCalls)]_vars

C18_Witness ==
    /\ pc = "done"
    /\ primaryCalls = 2
    /\ fallbackCalls = 2
    /\ onRequestCount = 2

\* C18 as stated: the hook fires once for every transport call, primary or
\* fallback, so a returned call counts as many hook calls as transport calls.
C18_OncePerTransportCall ==
    pc = "done" => onRequestCount = primaryCalls + fallbackCalls

\* C19 (as amended): the onResponse hook fires exactly once for an attempt
\* that produced a response and no error, whether the policy then asks for a
\* retry or not, and not at all for an attempt that produced no response or
\* a response together with an error; no other step of Do fires it.
C19_OncePerCleanResponse ==
    /\ []((pc = "return" /\ attempt = 0)
            => onResponseCount = (IF err = NilErr /\ res.present THEN 1 ELSE 0))
    /\ [](onResponseCount <= onRequestCount)
    /\ [][(pc = "policy" /\ pc' = "return")
            => onResponseCount' = onResponseCount
                                    + (IF err = NilErr /\ res.present THEN 1 ELSE 0)]_vars
    /\ [][(onResponseCount' # onResponseCount) => (pc = "policy" \/ pc' = "work")]_vars

C19_Witness ==
    /\ pc = "return"
    /\ attempt = 1
    /\ res.present
    /\ err # NilErr
    /\ onResponseCount = 0

\* C19 as stated: after the policy step of an attempt the hook has fired
\* once if the attempt produced a response, with or without an error.
C19_OncePerResponse ==
    (pc = "return" /\ attempt = 0)
    => onResponseCount = (IF res.present THEN 1 ELSE 0)

\* C20: with an onError hook attached, a Do call that has returned has
\* invoked the hook once if its retry loop ended with an error and not at
\* all if it ended in success.
C20_OnlyOnFailure ==
    (pc = "done" /\ onError)
    => onErrorCount = (IF err # NilErr THEN 1 ELSE 0)

\* C21: the tries argument the onError hook is given is the number of
\* attempts the call made (no backoff wait having been cut short).
C21_TriesIsAttempts ==
    (pc = "done" /\ onError /\ NoWaitAborted) => onErrorTries = onRequestCount

\* The bytes the first i calls of the log returned, one after the other.
RECURSIVE BytesOf(_, _)
BytesOf(log, i) == IF i = 0 THEN <<>> ELSE BytesOf(log, i - 1) \o log[i].bytes

\* C23: for non-empty data of length L, the first L bytes read from a fresh
\* reusable reader are the data, and so are the next L bytes; a Read with a
\* buffer of L bytes or more that starts after a whole number of passes
\* returns the whole data with a nil error.
C23_SecondPassIdentical ==
    LET L == Len(rdr.data)
        out == BytesOf(readLog, Len(readLog))
    IN  L > 0 =>
          /\ Len(out) >= L => SubSeq(out, 1, L) = rdr.data
          /\ Len(out) >= 2 * L => SubSeq(out, L + 1, 2 * L) = rdr.data
          /\ \A i \in 1..Len(readLog) :
                (/\ readLog[i].op = "Read"
                 /\ readLog[i].k >= L
                 /\ Len(BytesOf(readLog, i - 1)) % L = 0)
                => (readLog[i].bytes = rdr.data /\ readLog[i].err = "nil")

C23_Witness ==
    /\ rdr.data = <<1, 2, 1>>
    /\ Len(readLog) = 3
    /\ readLog[1].op = "Read" /\ readLog[1].k = 1 /\ readLog[1].bytes = <<1>>
    /\ readLog[2].op = "Read" /\ readLog[2].k = 2 /\ readLog[2].bytes = <<2, 1>>
    /\ readLog[3].op = "Read" /\ readLog[3].k = 3 /\ readLog[3].bytes = <<1, 2, 1>>

\* C24: for non-empty data no Read returns an error, the bytes returned so
\* far are a prefix of the data repeated, no Read returns bytes from both
\* sides of the end of the data, and a Read that starts with the cursor at
\* the end returns bytes from position 0 on.
C24_WrapsWithoutEOF ==
    LET L == Len(rdr.data)
        out == BytesOf(readLog, Len(readLog))
    IN  L > 0 =>
          /\ \A i \in 1..Len(readLog) :
                LET start == Len(BytesOf(readLog, i - 1)) % L
                IN  /\ readLog[i].err = "nil"
                    /\ readLog[i].n = Len(readLog[i].bytes)
                    /\ readLog[i].n <= readLog[i].k
                    /\ start + readLog[i].n <= L
                    /\ (readLog[i].op = "Read" /\ readLog[i].k > 0)
                          => (readLog[i].n > 0 /\ readLog[i].bytes[1] = rdr.data[start + 1])
          /\ \A j \in 1..Len(out) : out[j] = rdr.data[((j - 1) % L) + 1]
          /\ rdr.i % L = Len(out) % L

C24_Witness ==
    /\ rdr.data = <<1, 2>>
    /\ Len(readLog) = 3
    /\ readLog[1].k = 1 /\ readLog[1].bytes = <<1>>
    /\ readLog[2].k = 3 /\ readLog[2].bytes = <<2>>
    /\ readLog[3].k = 3 /\ readLog[3].bytes = <<1, 2>>

\* C25: a reusable reader over empty data returns 0 bytes and a nil error
\* from every Read, for every buffer length and after any Read or Close.
C25_EmptyReadsNothing ==
    Len(rdr.data) = 0
    => \A i \in 1..Len(readLog) :
          readLog[i].n = 0 /\ readLog[i].bytes = <<>> /\ readLog[i].err = "nil"

C25_Witness ==
    /\ Len(rdr.data) = 0
    /\ Len(readLog) = 3
    /\ readLog[1].op = "Read" /\ readLog[1].k = 2
    /\ readLog[2].op = "Close"
    /\ readLog[3].op = "Read" /\ readLog[3].k = 0 /\ readLog[3].err = "nil"


\* C26: when several goroutines call Read on one reader concurrently, each
\* with a buffer at least as long as the data, every Read returns the
\* complete data with a nil error; Reads exclude one another, and a Read
\* never starts on a cursor that another left mid-way.
InRead(g) == readers[g].pc \in {"first", "reset", "second", "unlock"}

C26_ConcurrentReadsComplete ==
    /\ \A j \in 1..Len(readLog) :
          /\ readLog[j].bytes = rdr.data
          /\ readLog[j].n = Len(rdr.data)
          /\ readLog[j].err = "nil"
    /\ \A g, h \in Goroutines : InRead(g) /\ InRead(h) => g = h
    /\ \A g \in Goroutines : InRead(g) => mu = g
    /\ \A g \in Goroutines : readers[g].pc = "first" => rdr.i \in {0, Len(rdr.data)}

C26_Witness ==
    /\ Len(rdr.data) >= 2
    /\ Len(readLog) >= 2
    /\ \E g, h \in Goroutines :
          /\ readers[g].pc = "second"
          /\ readers[h].pc = "lock"


\* C27: in every attempt of a call, a transport that reads the whole request
\* body (ContentLength bytes) obtains the original body from its first byte,
\* whatever part of the body earlier transport calls of the call have read.
C27_ReplaysFromFirstByte ==
    (primaryCalls > 0 /\ Len(lastBodyRead) = Len(rdr.data)) => lastBodyRead = rdr.data


\* C22: a Send of a builder whose body has an unsupported type returns an
\* error and no response, calls neither transport, invokes no hook, leaves
\* the idle-connection counter as it was and never enters Do.
C22_SendFailsFast ==
    [][(rb.stage = "building" /\ ~getReusableBodyReadCloser(rb.body).ok
          /\ rb'.stage # "building")
        => /\ rb'.stage = "failed"
           /\ retErr' = BuildError
           /\ res' = NoRes
           /\ UNCHANGED <<primaryCalls, fallbackCalls, onRequestCount, onResponseCount,
                          onErrorCount, requestCounter, closeIdleCount, calls, pc>>]_vars

C22_Witness ==
    /\ rb.stage = "failed"
    /\ rb.body.kind = "int"
    /\ retErr = BuildError
    /\ requestCounter = 1
    /\ primaryCalls = 1
    /\ onRequestCount = 1


\* The per-call header calls of the builder that are the only ones made on
\* their key, the key being one of a client default as well.
ConflictingOps ==
    {j \in 1..Len(rb.ops) :
        /\ \E k \in DOMAIN headers :
              CanonicalMIMEHeaderKey(k) = CanonicalMIMEHeaderKey(rb.ops[j].key)
        /\ \A i \in 1..Len(rb.ops) :
              CanonicalMIMEHeaderKey(rb.ops[i].key) = CanonicalMIMEHeaderKey(rb.ops[j].key)
                 => i = j}

\* The client defaults whose key no per-call header and no other default has.
NonConflictingDefaults ==
    {k \in DOMAIN headers :
        /\ \A i \in 1..Len(rb.ops) :
              CanonicalMIMEHeaderKey(rb.ops[i].key) # CanonicalMIMEHeaderKey(k)
        /\ \A l \in DOMAIN headers :
              CanonicalMIMEHeaderKey(l) = CanonicalMIMEHeaderKey(k) => l = k}

C29_FallbackOutcomeDecides ==
    [][InCall =>
       /\ (pc = "primary" /\ pc' # "primary") =>
             /\ pc' \in {"fallback", "policy"}
             /\ pc' = "fallback" <=> (err' # NilErr /\ err'.text = "h1broken")
             /\ fallbackCalls' = fallbackCalls
       /\ (pc # "fallback" /\ pc' = "fallback") => pc = "primary"
       /\ (pc = "fallback" /\ pc' # "fallback") =>
             /\ pc' = "policy"
             /\ fallbackCalls' = fallbackCalls + 1
       /\ fallbackCalls' # fallbackCalls =>
             /\ pc = "fallback"
             /\ err # NilErr /\ err.text = "h1broken"
             /\ fallbackCalls' <= primaryCalls
             /\ UNCHANGED <<primaryCalls, reqCtx, rdr.data, onRequestCount>>
             /\ \E out \in fallbackRT : res' = out.res /\ err' = out.err
       /\ (pc = "policy" /\ pc' # "policy") =>
             /\ dec' = RetryPolicy(cfg.RetryPolicy, CtxErr(reqCtx), err)
             /\ UNCHANGED <<res, err>>
       /\ (pc = "return" /\ pc' # "return") =>
             /\ pc' = "engine"
             /\ err' = IF ~dec.retry /\ dec.errr # NilErr THEN dec.errr ELSE err
             /\ res' \in {res, drainBody(res)}]_vars

C29_Witness ==
    /\ pc = "engine"
    /\ primaryRT = {OutHTTP1Broken}
    /\ fallbackRT = AnyOutcome
    /\ attempt = 1
    /\ primaryCalls = 2
    /\ fallbackCalls = 2
    /\ err = OutTemporary.err
    /\ dec = RetryPolicy("default", NilErr, OutTemporary.err)
    /\ dec.retry


\* C30: the attempts of a call run one after the other: each goes from the
\* before-request hook to the transport call, the policy decision with the
\* after-response hook, and its return, and the next attempt's transport
\* call starts only after all of that and the engine's wait.
C30_AttemptsSequential ==
    [][InCall =>
       /\ (pc' # pc) =>
             /\ pc' = "primary" => pc = "work"
             /\ pc' = "fallback" => pc = "primary"
             /\ pc' = "policy" => pc \in {"primary", "fallback"}
             /\ pc' = "return" => pc = "policy"
             /\ pc' = "engine" => pc = "return"
             /\ pc' = "wait" => pc = "engine"
             /\ pc' = "work" => pc = "wait" /\ attempt' = attempt + 1
       /\ attempt' # attempt => pc = "wait" /\ pc' = "work"
       /\ onRequestCount' # onRequestCount =>
             /\ pc = "work" /\ pc' = "primary"
             /\ onRequestCount = attempt /\ onRequestCount' = attempt + 1
             /\ primaryCalls = attempt
       /\ primaryCalls' # primaryCalls =>
             /\ pc = "primary" /\ pc' \in {"fallback", "policy"}
             /\ primaryCalls = attempt /\ primaryCalls' = attempt + 1
             /\ onRequestCount = attempt + 1
             /\ onResponseCount <= attempt
             /\ waits = attempt
       /\ onResponseCount' # onResponseCount =>
             /\ pc = "policy" /\ pc' = "return"
             /\ onResponseCount' = onResponseCount + 1
             /\ primaryCalls = attempt + 1
             /\ onRequestCount = attempt + 1
       /\ dec' # dec => pc = "policy" /\ primaryCalls = attempt + 1]_vars

C30_Witness ==
    /\ pc = "primary"
    /\ attempt = 1
    /\ primaryCalls = 1
    /\ waits = 1
    /\ onRequestCount = 2
    /\ onResponseCount = 1


\* C31 as stated: when the policy has decided to retry after an attempt that
\* produced a response, the body of that response has been drained and
\* closed before the next attempt starts, whether or not the attempt
\* returned an error as well.
C31_DrainedBeforeNextAttempt ==
    (pc = "wait" /\ dec.retry /\ res.present) => (res.drained /\ res.closes >= 1)

\* C31, amended: when the policy has decided to retry after an attempt that
\* produced a response and no error, the work unit has drained and closed
\* the body, once, when it returns; a response that came with an error is
\* handed on as the transport returned it, not drained by the client.
C31_DrainsCleanResponse ==
    (pc \in {"engine", "wait", "after"} /\ dec.retry /\ res.present) =>
       /\ err = NilErr => (res.drained /\ res.closes = 1)
       /\ (err # NilErr /\ pc # "after") =>
             (~res.drained /\ \E out \in primaryRT \cup fallbackRT : res = out.res)

C31_Witness ==
    /\ pc = "engine"
    /\ cfg.RetryPolicy = "always"
    /\ dec.retry
    /\ res.present
    /\ err = NilErr
    /\ res.drained
    /\ res.closes = 1
    /\ attempt = 0


\* C32: no response body is leaked.  A response that a later transport call
\* of the same Do call replaces has had its body closed; when Do returns
\* without an onError hook, the response it returns with a nil error has
\* not been closed, and one left from a failed call has been closed.
C32_NoBodyLeaked ==
    [][InCall =>
       /\ ((primaryCalls' # primaryCalls \/ fallbackCalls' # fallbackCalls) /\ res.present)
             => res.closes >= 1
       /\ (pc' = "done" /\ ~onError /\ res'.present) =>
             IF retErr' = RetNil THEN res'.closes = 0 ELSE res'.closes >= 1]_vars


\* C33: whenever Do returns a response with a nil error, the client has
\* neither drained nor closed the body of that response, also when the
\* policy asked for a retry after the successful attempt.
C33_ReturnedBodyUntouched ==
    (pc = "done" /\ retErr = RetNil /\ res.present) => (~res.drained /\ res.closes = 0)


\* C34: a non-nil overriding error returned by the policy replaces the
\* attempt's error, also when the policy returns it with retry = true: it
\* is the error the work unit hands to the retry engine.
C34_OverrideReplacesError ==
    (pc = "engine" /\ dec.errr # NilErr) => err = dec.errr


\* C35: a client's resolved configuration is fixed at construction: no
\* later NewClient from the same configuration object with another
\* transport changes the idle-connection flag or the retry policy the
\* client uses.
C35_ConfigurationFixed ==
    [][/\ cfg'.KillIdleConn = cfg.KillIdleConn
       /\ cfg'.RetryPolicy = cfg.RetryPolicy
       /\ cfg'.RetryMax = cfg.RetryMax]_vars


\* C36: AddHeader and SetHeader change only the headers of the builder they
\* are called on: the client's default headers stay as they are, and every
\* builder Client.Request hands out, whatever was done to earlier builders,
\* starts from exactly the client's defaults, with no per-call header.
C36_BuilderHeadersLocal ==
    [][/\ headers' = headers
       /\ rb'.n # rb.n =>
             /\ rb'.n = rb.n + 1
             /\ rb'.header \in DefaultHeaders(headers)
             /\ rb'.ops = <<>>
       /\ rb'.ops # rb.ops /\ rb'.n = rb.n =>
             /\ rb'.stage = rb.stage
             /\ rb'.body = rb.body
             /\ \E key \in Keys, value \in CallValues :
                   \/ rb'.header = HeaderAdd(rb.header, key, value)
                   \/ rb'.header = HeaderSet(rb.header, key, value)]_vars

C36_Witness ==
    /\ rb.n = 2
    /\ rb.stage = "building"
    /\ DOMAIN headers = {"X-A", "X-B"}
    /\ rb.ops = <<HeaderOp("replace", "X-A", "p")>>
    /\ rb.header["X-A"] = <<"p">>
    /\ rb.header["X-B"] = <<headers["X-B"]>>


\* C37: with the timeout left at zero, the context Do derives is not
\* expired when the call starts, and a first attempt that succeeds is
\* returned as a success.
C37_ZeroTimeoutNoDeadline ==
    cfg.Timeout = 0 =>
       /\ (pc = "work" /\ attempt = 0) => ~ctxDone
       /\ (pc = "done" /\ ~onError /\ primaryCalls = 1 /\ fallbackCalls = 0
             /\ reqCtx = "live" /\ res.present /\ res.closes = 0)
            => retErr = RetNil

====
